---- MODULE Spec2Model ----
(***************************************************************************)
(* A model of little_exif's chunk-level editing of WebP (src/src/webp.rs)  *)
(* and PNG (src/src/png.rs) files.                                         *)
(*                                                                         *)
(* A file is the sequence of its bytes (0..255).  Offsets are 0-based as   *)
(* in the code; data[o + 1] is the byte at offset o.  Every public         *)
(* operation is one action: it opens the file, runs to completion and      *)
(* leaves its result in res.  32-bit quantities read from arbitrary bytes  *)
(* are kept as 4-byte tuples; they become integers only once the code has  *)
(* bounded them by the file length.                                        *)
(***************************************************************************)
EXTENDS Integers, Sequences, FiniteSets, TLC

VARIABLES
    fmt,      \* "webp" or "png": which module's functions are applied to the path
    exists,   \* path.exists()
    disk,     \* the bytes of the file at the path
    hist,     \* the calls made so far: [op, arg, before, after, ret]
    res,      \* the value the last call returned
    overflow_checks   \* the build: arithmetic overflow panics (TRUE) or wraps

vars == <<fmt, exists, disk, hist, res, overflow_checks>>

\* ------------------------------------------------------------------ bounds

\* Number of operations performed on one file.
MaxOps == 2
\* Longest metadata blob handed to a write.
MaxBlob == 2
\* Number of chunks following the first chunk of an initial WebP file.
MaxTail == 3
\* Number of chunks between IHDR and IEND of an initial PNG file.
MaxMid == 2

\* ------------------------------------------------------------- byte helpers

Min(a, b) == IF a < b THEN a ELSE b
Max(a, b) == IF a > b THEN a ELSE b

Zeros(n) == [i \in 1..n |-> 0]

\* file.read(&mut buf) on a zero-initialised buffer of n bytes at offset pos:
\* the bytes read, the rest of the buffer left 0.
ReadBuf(data, pos, n) ==
    [i \in 1..n |-> IF pos + i <= Len(data) THEN data[pos + i] ELSE 0]

\* The number of bytes that read returns.
ReadCount(data, pos, n) == Max(0, Min(n, Len(data) - pos))

\* file.read_to_end at offset pos.
ReadToEnd(data, pos) ==
    IF pos >= Len(data) THEN <<>> ELSE SubSeq(data, pos + 1, Len(data))

\* file.write_all(buf) at offset pos of a handle opened for writing; a write
\* past the end zero-fills the gap, an empty write changes nothing.
WriteAt(data, pos, buf) ==
    IF buf = <<>> THEN data
    ELSE (IF pos <= Len(data) THEN SubSeq(data, 1, pos)
          ELSE data \o Zeros(pos - Len(data)))
         \o buf
         \o ReadToEnd(data, pos + Len(buf))

\* file.set_len(n)
SetLen(data, n) ==
    IF n <= Len(data) THEN SubSeq(data, 1, n) ELSE data \o Zeros(n - Len(data))

\* to_u8_vec_macro!(u32, n, Endian::Little), for n < 2^31
LE32(n) ==
    <<n % 256, (n \div 256) % 256, (n \div 65536) % 256, (n \div 16777216) % 256>>

\* from_u8_vec_macro!(u32, b, Endian::Little), for a value below 2^31
FromLE32(b) == b[1] + 256 * b[2] + 65536 * b[3] + 16777216 * b[4]

\* The u32 b does not fit a model integer (b >= 2^31).
Huge(b) == b[4] >= 128

\* u32 addition b + k on little-endian bytes, k < 256: the wrapped sum and
\* whether it overflowed.
AddU32(b, k) ==
    LET s1 == b[1] + k
        s2 == b[2] + (s1 \div 256)
        s3 == b[3] + (s2 \div 256)
        s4 == b[4] + (s3 \div 256)
    IN  [bytes |-> <<s1 % 256, s2 % 256, s3 % 256, s4 % 256>>,
         overflow |-> s4 >= 256]

\* str::to_lowercase on ASCII
to_lowercase(s) ==
    [i \in 1..Len(s) |-> IF s[i] >= 65 /\ s[i] <= 90 THEN s[i] + 32 ELSE s[i]]

\* String::from_utf8(..).is_ok(), on the names the model reads: ASCII is
\* valid, a byte of 0x80 and above on its own is not.
Utf8Ok(s) == \A i \in 1..Len(s) : s[i] < 128

\* ---------------------------------------------------------------- results

\* What an operation returns: Ok (with the bytes or the descriptors it hands
\* back), Err with the error, or a panic (unwrap on Err, todo!, overflow).
Result(k, e, d, c) == [kind |-> k, err |-> e, data |-> d, chunks |-> c]
OkR(d)   == Result("ok", "", d, <<>>)
ErrR(e)  == Result("err", e, <<>>, <<>>)
PanicR   == Result("panic", "", <<>>, <<>>)

\* Whether arithmetic overflow panics (a debug build) or wraps (a release
\* build): both are builds of the same source.  png.rs has no arithmetic
\* that a file can make overflow.
OverflowChecks == BOOLEAN

\* ------------------------------------------------------------ WebP constants

RIFF_SIGNATURE    == <<82, 73, 70, 70>>
WEBP_SIGNATURE    == <<87, 69, 66, 80>>
VP8X_HEADER       == <<86, 80, 56, 88>>
EXIF_CHUNK_HEADER == <<69, 88, 73, 70>>
\* "Exif\0\0"
EXIF_HEADER       == <<69, 120, 105, 102, 0, 0>>
VP8L_NAME         == <<86, 80, 56, 76>>
VP8_SPACE_NAME    == <<86, 80, 56, 32>>
XMP_NAME          == <<88, 77, 80, 32>>
\* "VP8X", "VP8", "VP8L", "ICCP", "ANIM"
pre_exif_chunks   ==
    { <<86, 80, 56, 88>>, <<86, 80, 56>>, <<86, 80, 56, 76>>,
      <<73, 67, 67, 80>>, <<65, 78, 73, 77>> }

\* ------------------------------------------------------------- WebP: reading

\* check_signature after the RIFF signature: sum is byte_count + 8 in u32.
check_signature_size(sum, data, oc) ==
    IF sum.overflow /\ oc THEN PanicR
    ELSE IF Huge(sum.bytes) \/ Len(data) # FromLE32(sum.bytes) THEN ErrR("InvalidData")
    ELSE IF ReadBuf(data, 8, 4) # WEBP_SIGNATURE THEN ErrR("InvalidData")
    ELSE OkR(<<>>)

check_signature_webp(ex, data, oc) ==
    IF ~ex THEN ErrR("NotFound")
    ELSE IF ReadBuf(data, 0, 4) # RIFF_SIGNATURE THEN ErrR("InvalidData")
    ELSE check_signature_size(AddU32(ReadBuf(data, 4, 4), 8), data, oc)

\* What get_next_chunk returns: the chunk's name and length (its payload is
\* read and never looked at), or the error, and the cursor afterwards.
ChunkR(k, e, name, len, pos) ==
    [kind |-> k, err |-> e, name |-> name, len |-> len, pos |-> pos]

\* get_next_chunk once the length is known: the read of the payload and the
\* parse of the name.
get_next_chunk_data(name, chunk_length, data, pos) ==
    IF ReadCount(data, pos + 8, chunk_length) # chunk_length
    THEN ChunkR("err", "Other", <<>>, 0, pos + 8 + ReadCount(data, pos + 8, chunk_length))
    ELSE IF ~Utf8Ok(name) THEN ChunkR("err", "Other", <<>>, 0, pos + 8 + chunk_length)
    ELSE ChunkR("ok", "", name, chunk_length, pos + 8 + chunk_length)

\* get_next_chunk after chunk_length += chunk_length % 2, padded being the sum.
get_next_chunk_padded(name, padded, data, pos, oc) ==
    IF padded.overflow /\ oc THEN ChunkR("panic", "", <<>>, 0, pos + 8)
    ELSE IF Huge(padded.bytes) THEN ChunkR("err", "Other", <<>>, 0, Len(data))
    ELSE get_next_chunk_data(name, FromLE32(padded.bytes), data, pos)

\* The chunk at offset pos; its length counts the padding byte.
get_next_chunk(data, pos, oc) ==
    IF ReadCount(data, pos, 8) # 8
    THEN ChunkR("err", "UnexpectedEof", <<>>, 0, pos + ReadCount(data, pos, 8))
    ELSE get_next_chunk_padded(ReadBuf(data, pos, 4),
                               AddU32(ReadBuf(data, pos + 4, 4), data[pos + 5] % 2),
                               data, pos, oc)

\* RiffChunk::descriptor: the header and the length of the chunk.
get_next_chunk_descriptor(data, pos, oc) == get_next_chunk(data, pos, oc)

ParseR(k, e, chunks) == Result(k, e, <<>>, chunks)
Descriptor(d) == [name |-> d.name, len |-> d.len]

RECURSIVE parse_webp_loop(_, _, _, _, _)
\* One turn of the loop of parse_webp on the descriptor result d.
parse_webp_step(d, data, parsed_length, chunks, oc) ==
    IF d.kind = "ok"
    THEN IF parsed_length + 4 + 4 + d.len = Len(data)
         THEN ParseR("ok", "", Append(chunks, Descriptor(d)))
         ELSE parse_webp_loop(data, d.pos, parsed_length + 4 + 4 + d.len,
                              Append(chunks, Descriptor(d)), oc)
    ELSE IF d.kind = "panic" THEN ParseR("panic", "", <<>>)
    ELSE IF d.err = "UnexpectedEof" THEN ParseR("ok", "", chunks)
    ELSE ParseR("err", d.err, <<>>)

parse_webp_loop(data, pos, parsed_length, chunks, oc) ==
    parse_webp_step(get_next_chunk_descriptor(data, pos, oc),
                    data, parsed_length, chunks, oc)

\* parse_webp on the result s of check_signature.
parse_webp_opened(s, data, oc) ==
    IF s.kind # "ok" THEN ParseR(s.kind, s.err, <<>>)
    ELSE parse_webp_loop(data, 12, 12, <<>>, oc)

parse_webp(ex, data, oc) ==
    parse_webp_opened(check_signature_webp(ex, data, oc), data, oc)

\* The errors of check_exif_in_file that clear_metadata tells apart by text.
NoExifFlag   == "Other: No EXIF chunk according to VP8X flags!"
FirstNotVP8X == "Other: Expected first chunk of WebP file to be of type 'VP8X' but instead got"

ExifCheckR(k, e, got, chunks) == [kind |-> k, err |-> e, got |-> got, chunks |-> chunks]

\* check_exif_in_file on the result p of parse_webp.
check_exif_in_file_parsed(p, data) ==
    IF p.kind # "ok" THEN ExifCheckR(p.kind, p.err, <<>>, <<>>)
    ELSE IF p.chunks = <<>> THEN ExifCheckR("err", "Other", <<>>, <<>>)
    ELSE IF to_lowercase(p.chunks[1].name) # to_lowercase(VP8X_HEADER)
         THEN ExifCheckR("err", FirstNotVP8X, p.chunks[1].name, <<>>)
    ELSE IF ReadCount(data, 20, 4) # 4 THEN ExifCheckR("err", "Other", <<>>, <<>>)
    ELSE IF (ReadBuf(data, 20, 4)[1] \div 8) % 2 # 1
         THEN ExifCheckR("err", NoExifFlag, <<>>, <<>>)
    ELSE ExifCheckR("ok", "", <<>>, p.chunks)

check_exif_in_file(ex, data, oc) ==
    check_exif_in_file_parsed(parse_webp(ex, data, oc), data)

RECURSIVE read_metadata_loop(_, _, _, _)
read_metadata_loop(data, pos, chunks, chunk_index) ==
    IF ReadCount(data, pos, 4) # 4 THEN ErrR("Other")
    ELSE IF chunk_index + 1 > Len(chunks) THEN PanicR
    ELSE IF ReadBuf(data, pos, 4) # chunks[chunk_index + 1].name THEN ErrR("Other")
    ELSE IF to_lowercase(ReadBuf(data, pos, 4)) = to_lowercase(EXIF_CHUNK_HEADER)
         THEN OkR(EXIF_HEADER \o ReadBuf(data, pos + 8, chunks[chunk_index + 1].len))
    ELSE read_metadata_loop(data,
                            pos + 8 + chunks[chunk_index + 1].len
                                + (chunks[chunk_index + 1].len % 2),
                            chunks, chunk_index + 1)

\* read_metadata on the result c of check_exif_in_file, which it unwraps.
read_metadata_checked(c, data) ==
    IF c.kind # "ok" THEN PanicR ELSE read_metadata_loop(data, 12, c.chunks, 0)

read_metadata(ex, data, oc) ==
    read_metadata_checked(check_exif_in_file(ex, data, oc), data)

\* ------------------------------------------------------------ WebP: mutators

\* What a mutator returns, and the file it leaves.
FileR(k, e, d) == [kind |-> k, err |-> e, data |-> d]

\* Runs only for a first chunk read as "VP8L": ends in todo!().
convert_VP8L_to_VP8X(data) ==
    IF ReadCount(data, 21, 4) # 4 THEN ErrR("Other") ELSE PanicR

\* convert_to_extended_format on the first chunk it read.
convert_first_chunk(first, data) ==
    IF first.kind = "panic" THEN PanicR
    ELSE IF first.kind = "err" THEN ErrR(first.err)
    ELSE IF first.name = <<86, 80, 56>> THEN ErrR("Other")
    ELSE IF first.name = VP8L_NAME THEN convert_VP8L_to_VP8X(data)
    ELSE ErrR("Other")

convert_to_extended_format(data, oc) ==
    convert_first_chunk(get_next_chunk(data, 12, oc), data)

\* flag_buffer[0] | 0x08  and  flag_buffer[0] & 0b11110111
SetBit08(b, value) ==
    IF value THEN (IF (b \div 8) % 2 = 1 THEN b ELSE b + 8)
    ELSE (IF (b \div 8) % 2 = 1 THEN b - 8 ELSE b)

\* set_exif_flag from the read of the flags on, conv being what the
\* conversion to the Extended Format returned (Ok when none was needed).
set_exif_flag_write(conv, data, exif_flag_value) ==
    IF conv.kind # "ok" THEN FileR(conv.kind, conv.err, data)
    ELSE IF ReadCount(data, 20, 4) # 4 THEN FileR("err", "Other", data)
    ELSE FileR("ok", "",
               WriteAt(data, 20,
                       <<SetBit08(ReadBuf(data, 20, 4)[1], exif_flag_value)>>
                       \o SubSeq(ReadBuf(data, 20, 4), 2, 4)))

\* set_exif_flag on the result p of parse_webp.
set_exif_flag_parsed(p, data, exif_flag_value, oc) ==
    IF p.kind # "ok" THEN FileR(p.kind, p.err, data)
    ELSE IF p.chunks = <<>> THEN FileR("err", "Other", data)
    ELSE set_exif_flag_write(
             IF to_lowercase(p.chunks[1].name) # to_lowercase(VP8X_HEADER)
             THEN convert_to_extended_format(data, oc)
             ELSE OkR(<<>>),
             data, exif_flag_value)

\* The file after set_exif_flag and what it returned.
set_exif_flag(ex, data, exif_flag_value, oc) ==
    set_exif_flag_parsed(parse_webp(ex, data, oc), data, exif_flag_value, oc)

\* The file after the removal of the chunk of count bytes that the cursor pos
\* is taken to stand before: the rest is buffered and written over it, and the
\* file is cut by count.
remove_chunk(data, pos, count) ==
    SetLen(WriteAt(data, pos, ReadToEnd(data, pos + count)), Len(data) - count)

\* The loop of clear_metadata over the parsed descriptors from index i on:
\* the file and new_size after it.  After a removal the cursor is where
\* write_all left it, behind the bytes written.
RECURSIVE clear_metadata_loop(_, _, _, _, _)
clear_metadata_loop(chunks, i, data, pos, new_size) ==
    IF i > Len(chunks) THEN [data |-> data, new_size |-> new_size]
    ELSE IF to_lowercase(chunks[i].name) # to_lowercase(EXIF_CHUNK_HEADER)
         THEN clear_metadata_loop(chunks, i + 1, data,
                                  pos + 4 + 4 + chunks[i].len + (chunks[i].len % 2),
                                  new_size)
    ELSE clear_metadata_loop(
             chunks, i + 1,
             remove_chunk(data, pos, 4 + 4 + chunks[i].len + (chunks[i].len % 2)),
             pos + Len(ReadToEnd(data, pos + 4 + 4 + chunks[i].len + (chunks[i].len % 2))),
             new_size - (4 + 4 + chunks[i].len + (chunks[i].len % 2)))

\* clear_metadata after its loop: the size field, then the EXIF flag.
clear_metadata_finish(l, ex, oc) ==
    set_exif_flag(ex, WriteAt(l.data, 4, LE32(l.new_size)), FALSE, oc)

\* clear_metadata on the result c of check_exif_in_file.
clear_metadata_checked(c, ex, data, oc) ==
    IF c.kind = "panic" THEN FileR("panic", "", data)
    ELSE IF c.kind = "err"
         THEN IF c.err = NoExifFlag THEN FileR("ok", "", data)
              ELSE IF c.err = FirstNotVP8X /\ c.got = VP8L_NAME THEN FileR("ok", "", data)
              ELSE FileR("err", c.err, data)
    ELSE clear_metadata_finish(
             clear_metadata_loop(c.chunks, 1, data, 12, FromLE32(ReadBuf(data, 4, 4))),
             ex, oc)

clear_metadata(ex, data, oc) ==
    clear_metadata_checked(check_exif_in_file(ex, data, oc), ex, data, oc)

encode_metadata_webp(exif_vec) ==
    EXIF_CHUNK_HEADER \o LE32(Len(exif_vec)) \o exif_vec
        \o (IF Len(exif_vec) % 2 # 0 THEN <<0>> ELSE <<>>)

ScanR(k, e, pos) == [kind |-> k, err |-> e, pos |-> pos]

RECURSIVE find_exif_location(_, _, _)
\* One turn of the scan of write_metadata on the descriptor result d: the scan
\* goes on after a chunk of pre_exif_chunks and ends behind any other chunk.
find_exif_step(d, data, oc) ==
    IF d.kind = "ok"
    THEN IF \E pre \in pre_exif_chunks : to_lowercase(pre) = to_lowercase(d.name)
         THEN find_exif_location(data, d.pos, oc)
         ELSE ScanR("ok", "", d.pos)
    ELSE IF d.kind = "panic" THEN ScanR("panic", "", d.pos)
    ELSE IF d.err = "UnexpectedEof" THEN ScanR("ok", "", d.pos)
    ELSE ScanR("err", d.err, d.pos)

\* The cursor at which write_metadata leaves its scan, or the error it returns.
find_exif_location(data, pos, oc) ==
    find_exif_step(get_next_chunk_descriptor(data, pos, oc), data, oc)

\* The file with the encoded chunk written at the cursor and the buffered rest
\* written back behind it.
insert_chunk(data, pos, encoded_metadata) ==
    WriteAt(WriteAt(data, pos, encoded_metadata),
            pos + Len(encoded_metadata), ReadToEnd(data, pos))

\* add_to_file_size gone wrong: the size field raised by the byte count of the
\* chunk's payload alone, its 8-byte header left out.
add_payload_to_file_size(data, count) ==
    WriteAt(data, 4, LE32(FromLE32(ReadBuf(data, 4, 4)) + count - 8))

\* The size field read, raised by the byte count of the chunk, written back.
add_to_file_size(data, count) ==
    WriteAt(data, 4, LE32(FromLE32(ReadBuf(data, 4, 4)) + count))

\* write_metadata from the found location on.
write_metadata_located(loc, ex, data, encoded_metadata, oc) ==
    IF loc.kind # "ok" THEN FileR(loc.kind, loc.err, data)
    ELSE set_exif_flag(ex,
                       add_to_file_size(insert_chunk(data, loc.pos, encoded_metadata),
                                        Len(encoded_metadata)),
                       TRUE, oc)

\* write_metadata on the result s of its check_signature.
write_metadata_opened(s, ex, data, encoded_metadata, oc) ==
    IF s.kind # "ok" THEN FileR(s.kind, s.err, data)
    ELSE write_metadata_located(find_exif_location(data, 12, oc),
                                ex, data, encoded_metadata, oc)

\* write_metadata on the result of its clear_metadata.
write_metadata_cleared(cleared, ex, general_encoded_metadata, oc) ==
    IF cleared.kind # "ok" THEN cleared
    ELSE write_metadata_opened(check_signature_webp(ex, cleared.data, oc), ex,
                               cleared.data,
                               encode_metadata_webp(general_encoded_metadata), oc)

write_metadata(ex, data, general_encoded_metadata, oc) ==
    write_metadata_cleared(clear_metadata(ex, data, oc), ex,
                           general_encoded_metadata, oc)

\* ---------------------------------------------------------- WebP: the files

\* A chunk on disk: fourCC, little-endian length, payload, padding byte.
RiffChunkBytes(name, payload) ==
    name \o LE32(Len(payload)) \o payload
         \o (IF Len(payload) % 2 = 1 THEN <<0>> ELSE <<>>)

\* A file of the given chunk bytes with a header that fits it.
RiffFile(body) == RIFF_SIGNATURE \o LE32(4 + Len(body)) \o WEBP_SIGNATURE \o body

RECURSIVE Concat(_, _)
Concat(seqs, i) == IF i > Len(seqs) THEN <<>> ELSE seqs[i] \o Concat(seqs, i + 1)

\* The chunks that follow the first one: an EXIF chunk of odd length, an ICCP
\* chunk, which write_metadata looks for, and an XMP chunk, which it does not.
ICCP_NAME == <<73, 67, 67, 80>>
TailChunks ==
    { RiffChunkBytes(EXIF_CHUNK_HEADER, <<17>>),
      RiffChunkBytes(ICCP_NAME, <<>>),
      RiffChunkBytes(XMP_NAME, <<49, 50>>) }
Tails == UNION {[1..k -> TailChunks] : k \in 0..MaxTail}

\* First chunks: VP8X with the EXIF flag unset and set (the ICC flag 0x20 kept
\* beside it), the lossy and the lossless chunk of a Simple-Format file.
VP8XChunk(flags) == RiffChunkBytes(VP8X_HEADER, <<flags, 0, 0, 0, 1, 0, 0, 1, 0, 0>>)
FirstChunks ==
    { VP8XChunk(32), VP8XChunk(40),
      RiffChunkBytes(VP8_SPACE_NAME, <<7, 7>>),
      RiffChunkBytes(VP8L_NAME, <<47, 1>>),
      RiffChunkBytes(VP8L_NAME, <<47, 1, 64, 0, 0, 9>>) }

WellFormedWebp == { RiffFile(f \o Concat(t, 1)) : f \in FirstChunks, t \in Tails }

\* Damaged headers and trailing bytes, on the files of a first chunk alone.
Replace(data, pos, buf) == WriteAt(data, pos, buf)
DamagedWebp ==
    UNION { LET d == RiffFile(f) IN
            { Replace(d, 0, <<82, 73, 70, 88>>),
              Replace(d, 8, <<87, 69, 66, 81>>),
              Replace(d, 4, LE32(Len(d) - 6)),
              Replace(d, 4, <<255, 255, 255, 255>>),
              Replace(Replace(d, 4, <<255, 255, 255, 255>>), 8, <<87, 69, 66, 81>>),
              RiffFile(f \o <<9, 9>>),
              RiffFile(f \o <<69, 88, 73, 70>>),
              SubSeq(d, 1, 8) }
          : f \in FirstChunks }

Blobs == { [j \in 1..n |-> 100 + j] : n \in 0..MaxBlob }

\* ------------------------------------------------------------- WebP: actions

\* The log of calls with one more: the operation, its argument, the file
\* before and after it, and what it returned.
Record(op, arg, after, ret) ==
    Append(hist, [op |-> op, arg |-> arg, before |-> disk, after |-> after, ret |-> ret])

\* An operation that only reads returned r.
Returned(op, arg, r) ==
    /\ res' = r
    /\ hist' = Record(op, arg, disk, r)
    /\ UNCHANGED <<fmt, exists, disk, overflow_checks>>

\* An operation that writes returned r.kind and left the file r.data.
Mutated(op, arg, r) ==
    /\ disk' = r.data
    /\ res' = Result(r.kind, r.err, <<>>, <<>>)
    /\ hist' = Record(op, arg, r.data, Result(r.kind, r.err, <<>>, <<>>))
    /\ UNCHANGED <<fmt, exists, overflow_checks>>

InitWebp ==
    /\ fmt = "webp"
    /\ \/ exists = TRUE /\ disk \in WellFormedWebp \cup DamagedWebp
       \/ exists = FALSE /\ disk = <<>>
    /\ hist = <<>>
    /\ res = Result("none", "", <<>>, <<>>)
    /\ overflow_checks \in OverflowChecks

CheckSignatureWebp ==
    /\ fmt = "webp" /\ Len(hist) < MaxOps
    /\ Returned("check_signature", <<>>,
                check_signature_webp(exists, disk, overflow_checks))

ParseWebp ==
    /\ fmt = "webp" /\ Len(hist) < MaxOps
    /\ Returned("parse", <<>>, parse_webp(exists, disk, overflow_checks))

ReadWebp ==
    /\ fmt = "webp" /\ Len(hist) < MaxOps
    /\ Returned("read", <<>>, read_metadata(exists, disk, overflow_checks))

ClearWebp ==
    /\ fmt = "webp" /\ Len(hist) < MaxOps
    /\ Mutated("clear", <<>>, clear_metadata(exists, disk, overflow_checks))

WriteWebp ==
    /\ fmt = "webp" /\ Len(hist) < MaxOps
    /\ \E m \in Blobs :
         Mutated("write", m, write_metadata(exists, disk, m, overflow_checks))

NextWebp == CheckSignatureWebp \/ ParseWebp \/ ReadWebp \/ ClearWebp \/ WriteWebp

SpecWebp == InitWebp /\ [][NextWebp]_vars

\* ------------------------------------------------------------ PNG: checksums

\* Exclusive or of two nibbles, of two bytes, of two 32-bit words (big-endian
\* 4-byte tuples).
RECURSIVE XorBits(_, _, _)
XorBits(a, b, n) ==
    IF n = 0 THEN 0
    ELSE ((a + b) % 2) + 2 * XorBits(a \div 2, b \div 2, n - 1)

NibbleXor == [a \in 0..15 |-> [b \in 0..15 |-> XorBits(a, b, 4)]]
ByteXor(a, b) == 16 * NibbleXor[a \div 16][b \div 16] + NibbleXor[a % 16][b % 16]
WordXor(x, y) == <<ByteXor(x[1], y[1]), ByteXor(x[2], y[2]),
                   ByteXor(x[3], y[3]), ByteXor(x[4], y[4])>>

\* x >> 1 on a 32-bit word
WordShr1(x) ==
    <<x[1] \div 2,
      (x[2] \div 2) + 128 * (x[1] % 2),
      (x[3] \div 2) + 128 * (x[2] % 2),
      (x[4] \div 2) + 128 * (x[3] % 2)>>

\* CRC_32_ISO_HDLC: the reflected polynomial 0xEDB88320, initial value and
\* final exclusive or 0xFFFFFFFF.
CrcPoly == <<237, 184, 131, 32>>
AllOnes == <<255, 255, 255, 255>>

RECURSIVE CrcTableEntry(_, _)
CrcTableEntry(c, k) ==
    IF k = 0 THEN c
    ELSE CrcTableEntry(IF c[4] % 2 = 1 THEN WordXor(WordShr1(c), CrcPoly)
                       ELSE WordShr1(c), k - 1)

CrcTable == [n \in 0..255 |-> CrcTableEntry(<<0, 0, 0, n>>, 8)]

\* The CRC register crc after the bytes at indexes from..to: one table step
\* per byte, the left half of the range before the right half.
RECURSIVE CrcSteps(_, _, _, _)
CrcSteps(crc, bytes, from, to) ==
    IF to < from THEN crc
    ELSE IF from = to
         THEN WordXor(CrcTable[ByteXor(crc[4], bytes[from])],
                      <<0, crc[1], crc[2], crc[3]>>)
    ELSE LET mid  == (from + to) \div 2
             left == CrcSteps(crc, bytes, from, mid)
         IN  IF Len(left) = 4 THEN CrcSteps(left, bytes, mid + 1, to) ELSE left

\* crc_struct.checksum(bytes), most significant byte first: the four bytes
\* (checksum >> (8 * (3 - i))) as u8, i = 0..3.
checksum(bytes) == WordXor(CrcSteps(AllOnes, bytes, 1, Len(bytes)), AllOnes)

\* deflate_bytes_zlib(bytes): a zlib stream of the bytes.  The codec is a
\* library; the stream modelled is the stored-block one (header 78 01, one
\* final stored block, Adler-32 of the bytes), which every inflater accepts.
AdlerMod == 65521
RECURSIVE AdlerSums(_, _, _, _)
AdlerSums(bytes, i, a, b) ==
    IF i > Len(bytes) THEN <<a, b>>
    ELSE AdlerSums(bytes, i + 1, (a + bytes[i]) % AdlerMod,
                   (b + ((a + bytes[i]) % AdlerMod)) % AdlerMod)

deflate_bytes_zlib(bytes) ==
    LET n  == Len(bytes)
        ab == AdlerSums(bytes, 1, 1, 0)
    IN  <<120, 1, 1, n % 256, n \div 256, 255 - (n % 256), 255 - (n \div 256)>>
        \o bytes
        \o <<ab[2] \div 256, ab[2] % 256, ab[1] \div 256, ab[1] % 256>>

\* ------------------------------------------------------------- PNG: reading

PNG_SIGNATURE == <<137, 80, 78, 71, 13, 10, 26, 10>>
\* "Raw profile type exif\0\0"
RAW_PROFILE_TYPE_EXIF ==
    <<82, 97, 119, 32, 112, 114, 111, 102, 105, 108, 101, 32,
      116, 121, 112, 101, 32, 101, 120, 105, 102, 0, 0>>
IHDR_NAME == <<73, 72, 68, 82>>
IDAT_NAME == <<73, 68, 65, 84>>
IEND_NAME == <<73, 69, 78, 68>>
zTXt_NAME == <<122, 84, 88, 116>>

\* (n >> (8 * (3 - i))) as u8 for i = 0..3, n < 2^31
BE32(n) ==
    <<(n \div 16777216) % 256, (n \div 65536) % 256, (n \div 256) % 256, n % 256>>

\* chunk_length = chunk_length * 256 + byte over the four bytes b, b below 2^31
FromBE32(b) == ((b[1] * 256 + b[2]) * 256 + b[3]) * 256 + b[4]

\* Opens the file for reading only; the cursor is left after the signature.
check_signature_png(ex, data) ==
    IF ~ex THEN ErrR("Can't parse PNG file - File does not exist!")
    ELSE IF ReadBuf(data, 0, 8) # PNG_SIGNATURE
         THEN ErrR("Can't parse PNG file - Wrong signature!")
    ELSE OkR(<<>>)

\* get_next_chunk_descriptor once name and length are known: the reads of the
\* data and of the CRC, and the comparison of the checksum.
get_next_chunk_crc(name, chunk_length, data, pos) ==
    IF ReadCount(data, pos + 8, chunk_length) # chunk_length
    THEN ChunkR("err", "Could not read chunk data", <<>>, 0, pos)
    ELSE IF ReadCount(data, pos + 8 + chunk_length, 4) # 4
         THEN ChunkR("err", "Could not read chunk CRC", <<>>, 0, pos)
    ELSE IF checksum(name \o ReadBuf(data, pos + 8, chunk_length))
                # ReadBuf(data, pos + 8 + chunk_length, 4)
         THEN ChunkR("err", "Checksum check failed while reading PNG!", <<>>, 0, pos)
    ELSE ChunkR("ok", "", name, chunk_length, pos + chunk_length + 12)

\* The descriptor of the chunk at offset pos and the cursor after it.  The
\* names the model's files carry are all names PngChunk::from_string knows.
get_next_chunk_descriptor_png(data, pos) ==
    IF ReadCount(data, pos, 8) # 8
    THEN ChunkR("err", "Could not read start of chunk", <<>>, 0, pos)
    ELSE IF data[pos + 1] >= 128
         THEN ChunkR("err", "Could not read chunk data", <<>>, 0, pos)
    ELSE get_next_chunk_crc(ReadBuf(data, pos + 4, 4), FromBE32(ReadBuf(data, pos, 4)),
                            data, pos)

RECURSIVE parse_png_loop(_, _, _)
\* One turn of the loop of parse_png on the descriptor result d.
parse_png_step(d, data, chunks) ==
    IF d.kind = "ok"
    THEN IF d.name = IEND_NAME
         THEN ParseR("ok", "", Append(chunks, Descriptor(d)))
         ELSE parse_png_loop(data, d.pos, Append(chunks, Descriptor(d)))
    ELSE ErrR("Could not read next chunk")

parse_png_loop(data, pos, chunks) ==
    parse_png_step(get_next_chunk_descriptor_png(data, pos), data, chunks)

\* parse_png on the result s of check_signature.
parse_png_opened(s, data) ==
    IF s.kind # "ok" THEN ErrR(s.err) ELSE parse_png_loop(data, 8, <<>>)

parse_png(ex, data) == parse_png_opened(check_signature_png(ex, data), data)

\* ------------------------------------------------------------ PNG: mutators

\* file.write_all(buf) on a handle: a handle that was not opened for writing
\* refuses the write, and the caller drops the error.
WriteHandle(data, pos, buf, writable) ==
    IF writable THEN WriteAt(data, pos, buf) ELSE data

\* The loop of clear_metadata_from_png from descriptor i on, on the handle
\* check_signature returned (read only): the file afterwards.
RECURSIVE clear_png_loop(_, _, _, _, _)
clear_png_loop(chunks, i, data, pos, seek_counter) ==
    IF i > Len(chunks) THEN data
    ELSE IF chunks[i].name = zTXt_NAME
         THEN clear_png_loop(chunks, i + 1,
                             WriteHandle(data, seek_counter,
                                         ReadToEnd(data, pos + chunks[i].len + 12), FALSE),
                             seek_counter, seek_counter)
         ELSE clear_png_loop(chunks, i + 1, data, pos + chunks[i].len + 12,
                             seek_counter + chunks[i].len + 12)

\* The same loop seen from inside: the file cursor and seek_counter at the
\* start of each iteration, i being the descriptor the iteration examines.
RECURSIVE clear_png_iterations(_, _, _, _)
clear_png_iterations(chunks, i, pos, seek_counter) ==
    IF i > Len(chunks) THEN <<>>
    ELSE <<[cursor |-> pos, seek_counter |-> seek_counter]>>
         \o (IF chunks[i].name = zTXt_NAME
             THEN clear_png_iterations(chunks, i + 1, seek_counter, seek_counter)
             ELSE clear_png_iterations(chunks, i + 1, pos + chunks[i].len + 12,
                                       seek_counter + chunks[i].len + 12))

\* clear_metadata_from_png on the result p of parse_png.
clear_metadata_parsed(p, data) ==
    IF p.kind = "ok"
    THEN FileR("ok", "", clear_png_loop(p.chunks, 1, data, 8, 0))
    ELSE FileR("err", "Could not clear metadata from PNG", data)

clear_metadata_from_png(ex, data) == clear_metadata_parsed(parse_png(ex, data), data)

\* zTXt_chunk_data with the four bytes of its checksum pushed.
push_checksum(zTXt_chunk_data) == zTXt_chunk_data \o checksum(zTXt_chunk_data)

\* write_new_chunk gone wrong: the length written counts the CRC, 4 taken off
\* for the type alone.
write_new_chunk_crc_counted(data, seek_start, zTXt_chunk_data, buffer) ==
    WriteHandle(
        WriteHandle(
            WriteHandle(data, seek_start, BE32(Len(zTXt_chunk_data) - 4), TRUE),
            seek_start + 4, zTXt_chunk_data, TRUE),
        seek_start + 4 + Len(zTXt_chunk_data), buffer, TRUE)

\* The three writes of write_metadata_to_png at seek_start: the length of the
\* new chunk, its data, the buffered rest of the file.
write_new_chunk(data, seek_start, zTXt_chunk_data, buffer) ==
    WriteHandle(
        WriteHandle(
            WriteHandle(data, seek_start, BE32(Len(zTXt_chunk_data) - 8), TRUE),
            seek_start + 4, zTXt_chunk_data, TRUE),
        seek_start + 4 + Len(zTXt_chunk_data), buffer, TRUE)

\* write_metadata_to_png from the seek to seek_start on.
write_metadata_at(data, seek_start, encoded_metadata) ==
    write_new_chunk(data, seek_start,
                    push_checksum(zTXt_NAME \o RAW_PROFILE_TYPE_EXIF
                                            \o deflate_bytes_zlib(encoded_metadata)),
                    ReadToEnd(data, seek_start))

\* write_metadata_to_png on the result p of its parse_png.
write_metadata_parsed(p, data, encoded_metadata) ==
    FileR("ok", "",
          write_metadata_at(data,
                            Len(PNG_SIGNATURE)
                                + (IF p.kind = "ok" THEN p.chunks[1].len ELSE 0) + 12,
                            encoded_metadata))

\* write_metadata_to_png on the result of its clear_metadata_from_png.
write_metadata_cleared_png(cleared, ex, encoded_metadata) ==
    IF cleared.kind # "ok"
    THEN FileR("err", "Could not safely write new metadata to PNG", cleared.data)
    ELSE write_metadata_parsed(parse_png(ex, cleared.data), cleared.data,
                               encoded_metadata)

write_metadata_to_png(ex, data, encoded_metadata) ==
    write_metadata_cleared_png(clear_metadata_from_png(ex, data), ex, encoded_metadata)

\* ----------------------------------------------------------- PNG: the files

PngChunkBytes(name, payload) ==
    BE32(Len(payload)) \o name \o payload \o checksum(name \o payload)

IhdrPayloads == { <<8>>, <<0, 0, 0, 1, 0, 0, 0, 1, 8, 0, 0, 0, 0>> }
MidChunks ==
    { PngChunkBytes(IDAT_NAME, <<33, 34>>),
      PngChunkBytes(zTXt_NAME, <<65, 0, 0>>) }
Mids == UNION {[1..k -> MidChunks] : k \in 0..MaxMid}

PngFile(ihdr, mid) ==
    PNG_SIGNATURE \o PngChunkBytes(IHDR_NAME, ihdr) \o Concat(mid, 1)
                  \o PngChunkBytes(IEND_NAME, <<>>)

WellFormedPng == { PngFile(h, m) : h \in IhdrPayloads, m \in Mids }

\* The byte at offset o with bit b flipped.
FlipBit(data, o, b) ==
    LET old == data[o + 1]
        new == IF (old \div (2 ^ b)) % 2 = 1 THEN old - 2 ^ b ELSE old + 2 ^ b
    IN  WriteAt(data, o, <<new>>)

\* The offsets of the payload and CRC bytes of the chunks of a well-formed file.
RECURSIVE PayloadAndCrcOffsets(_, _)
PayloadAndCrcOffsets(data, pos) ==
    IF pos + 8 > Len(data) THEN {}
    ELSE LET len == FromLE32(<<data[pos + 4], data[pos + 3], data[pos + 2], data[pos + 1]>>)
         IN  ((pos + 8)..(pos + 8 + len + 3))
             \cup PayloadAndCrcOffsets(data, pos + len + 12)

\* One flipped bit in a payload or a CRC, a wrong signature, a cut file: on
\* the files of a one-byte IHDR and at most one chunk before IEND.
DamagedPng ==
    UNION { LET d == PngFile(<<8>>, m) IN
            { FlipBit(d, o, b) : o \in PayloadAndCrcOffsets(d, 8), b \in 0..7 }
            \cup { WriteAt(d, 1, <<81>>), SubSeq(d, 1, Len(d) - 3) }
          : m \in {mm \in Mids : Len(mm) <= 1} }

\* -------------------------------------------------------------- PNG: actions

InitPng ==
    /\ fmt = "png"
    /\ \/ exists = TRUE /\ disk \in WellFormedPng \cup DamagedPng
       \/ exists = FALSE /\ disk = <<>>
    /\ hist = <<>>
    /\ res = Result("none", "", <<>>, <<>>)
    /\ overflow_checks = TRUE

ParsePng ==
    /\ fmt = "png" /\ Len(hist) < MaxOps
    /\ Returned("parse", <<>>, parse_png(exists, disk))

ClearPng ==
    /\ fmt = "png" /\ Len(hist) < MaxOps
    /\ Mutated("clear", <<>>, clear_metadata_from_png(exists, disk))

WritePng ==
    /\ fmt = "png" /\ Len(hist) < MaxOps
    /\ \E m \in Blobs :
         Mutated("write", m, write_metadata_to_png(exists, disk, m))

NextPng == ParsePng \/ ClearPng \/ WritePng

SpecPng == InitPng /\ [][NextPng]_vars

\* ------------------------------------------------------------ both formats

Init == InitWebp \/ InitPng
Next == NextWebp \/ NextPng
Spec == Init /\ [][Next]_vars

\* ------------------------------------------------- what the claims speak of

\* The chunks that cover a RIFF body from offset pos to the end of the file
\* exactly: [name, size, bytes] each, size the declared one and bytes the
\* whole chunk with header and padding.  ok is FALSE when they do not.
RECURSIVE RiffLayout(_, _, _)
RiffLayout(data, pos, acc) ==
    IF pos = Len(data) THEN [ok |-> TRUE, chunks |-> acc]
    ELSE IF pos + 8 > Len(data) THEN [ok |-> FALSE, chunks |-> acc]
    ELSE IF data[pos + 8] >= 128 THEN [ok |-> FALSE, chunks |-> acc]
    ELSE LET size == FromLE32(SubSeq(data, pos + 5, pos + 8))
             span == 8 + size + (size % 2)
         IN  IF pos + span > Len(data) THEN [ok |-> FALSE, chunks |-> acc]
             ELSE RiffLayout(data, pos + span,
                             Append(acc, [name  |-> SubSeq(data, pos + 1, pos + 4),
                                          size  |-> size,
                                          bytes |-> SubSeq(data, pos + 1, pos + span)]))

\* The RIFF size field of the file is its length less 8.
SizeFieldFits(data) ==
    /\ Len(data) >= 8
    /\ data[8] < 128
    /\ FromLE32(SubSeq(data, 5, 8)) = Len(data) - 8

\* A valid WebP file: both signatures, a fitting size field, and at least one
\* chunk, the chunks covering the rest of the file.
ValidWebp(data) ==
    /\ Len(data) >= 12
    /\ SubSeq(data, 1, 4) = RIFF_SIGNATURE
    /\ SubSeq(data, 9, 12) = WEBP_SIGNATURE
    /\ SizeFieldFits(data)
    /\ RiffLayout(data, 12, <<>>).ok
    /\ RiffLayout(data, 12, <<>>).chunks # <<>>

WebpChunks(data) == RiffLayout(data, 12, <<>>).chunks

\* Extended Format: the first chunk is VP8X with its 10-byte payload.
ExtendedFormat(data) ==
    /\ ValidWebp(data)
    /\ WebpChunks(data)[1].name = VP8X_HEADER
    /\ WebpChunks(data)[1].size = 10

\* Simple Format: the lossy or the lossless chunk and nothing else.
SimpleFormat(data) ==
    /\ ValidWebp(data)
    /\ Len(WebpChunks(data)) = 1
    /\ WebpChunks(data)[1].name \in {VP8_SPACE_NAME, VP8L_NAME}

\* Bit 0x08 of the first flag byte of the VP8X chunk.
ExifFlagSet(data) == (data[21] \div 8) % 2 = 1

IsExif(c) == c.name = EXIF_CHUNK_HEADER
NotExif(c) == c.name # EXIF_CHUNK_HEADER

\* The chunks of a PNG file from offset pos up to its IEND, which ends the
\* file: [name, size, bytes, crc_ok] each.
RECURSIVE PngLayout(_, _, _)
PngLayout(data, pos, acc) ==
    IF pos + 12 > Len(data) THEN [ok |-> FALSE, chunks |-> acc]
    ELSE IF data[pos + 1] >= 128 THEN [ok |-> FALSE, chunks |-> acc]
    ELSE LET size == FromBE32(SubSeq(data, pos + 1, pos + 4))
             name == SubSeq(data, pos + 5, pos + 8)
             more == Append(acc,
                        [name   |-> name,
                         size   |-> size,
                         bytes  |-> SubSeq(data, pos + 1, pos + 12 + size),
                         crc_ok |-> checksum(SubSeq(data, pos + 5, pos + 8 + size))
                                      = SubSeq(data, pos + 9 + size, pos + 12 + size)])
         IN  IF pos + 12 + size > Len(data) THEN [ok |-> FALSE, chunks |-> acc]
             ELSE IF name = IEND_NAME
                  THEN [ok |-> pos + 12 + size = Len(data), chunks |-> more]
             ELSE PngLayout(data, pos + 12 + size, more)

PngChunks(data) == PngLayout(data, 8, <<>>).chunks

\* The signature, then chunks that fit the file from IHDR to IEND.
PngFramed(data) ==
    /\ Len(data) >= 8
    /\ SubSeq(data, 1, 8) = PNG_SIGNATURE
    /\ PngLayout(data, 8, <<>>).ok
    /\ PngChunks(data)[1].name = IHDR_NAME

\* A valid PNG file: framed, and every stored CRC is the computed one.
ValidPng(data) ==
    /\ PngFramed(data)
    /\ \A k \in 1..Len(PngChunks(data)) : PngChunks(data)[k].crc_ok

\* The name and length of each chunk, as parse returns them.
Descriptors(chunks) == [k \in 1..Len(chunks) |-> [name |-> chunks[k].name, len |-> chunks[k].size]]

RECURSIVE SumLen(_, _, _)
SumLen(chunks, k, extra) ==
    IF k > Len(chunks) THEN 0 ELSE 8 + chunks[k].len + extra + SumLen(chunks, k + 1, extra)

\* parse succeeds on the file, and the signature size plus the sum of
\* 8 + length (+ 4 for the CRC of a PNG chunk) over the descriptors it returns
\* is the length of the file.
AddsUpWebp(ex, data) ==
    /\ parse_webp(ex, data, overflow_checks).kind = "ok"
    /\ 12 + SumLen(parse_webp(ex, data, overflow_checks).chunks, 1, 0) = Len(data)

AddsUpPng(ex, data) ==
    /\ parse_png(ex, data).kind = "ok"
    /\ 8 + SumLen(parse_png(ex, data).chunks, 1, 4) = Len(data)

AddsUp(data) ==
    IF fmt = "webp" THEN AddsUpWebp(exists, data) ELSE AddsUpPng(exists, data)

\* The file before the first call.
FirstFile == IF hist = <<>> THEN disk ELSE hist[1].before

Calls == 1..Len(hist)
IsOk(call) == call.ret.kind = "ok"

\* ------------------------------------------------------------------- claims

\* The last call and the one before it.  Every call of a run is the last call
\* of a reachable state, so an invariant on the last call speaks of them all.
Last  == hist[Len(hist)]
Prior == hist[Len(hist) - 1]

\* C1 (as the specification states it): after write_metadata(F, M) has
\* succeeded on an Extended-Format WebP file F, read_metadata returns the
\* 6-byte EXIF marker followed by exactly the bytes of M, for M of even and of
\* odd length: no byte dropped, none (such as a padding byte) added.
C1_RoundTrip ==
    (/\ fmt = "webp" /\ Len(hist) >= 2
     /\ Prior.op = "write" /\ IsOk(Prior) /\ ExtendedFormat(Prior.before)
     /\ Last.op = "read")
    => (IsOk(Last) /\ Last.ret.data = EXIF_HEADER \o Prior.arg)

\* C1's case: a blob of odd length was written to an Extended-Format file and
\* read back.
C1_OddBlobReadBack ==
    /\ fmt = "webp" /\ Len(hist) = 2
    /\ hist[1].op = "write" /\ IsOk(hist[1]) /\ ExtendedFormat(hist[1].before)
    /\ Len(hist[1].arg) % 2 = 1
    /\ hist[2].op = "read" /\ IsOk(hist[2])

\* C2 (as the specification states it): from a file on which parse succeeds
\* and whose signature size and chunk sizes add up to its length, after any
\* sequence of successful write and clear calls, WebP or PNG, parse succeeds
\* again and the sizes add up to the length of the file.
C2_SelfConsistent ==
    (/\ AddsUp(FirstFile)
     /\ \A i \in Calls : hist[i].op \in {"write", "clear"} /\ IsOk(hist[i]))
    => AddsUp(disk)

\* C2's case: a successful clear of a file that added up took bytes away.
C2_ClearedConsistentFile ==
    /\ Len(hist) >= 1
    /\ AddsUp(FirstFile)
    /\ hist[1].op = "clear" /\ IsOk(hist[1])
    /\ Len(hist[1].after) < Len(hist[1].before)

\* C3: after every write_metadata and every clear_metadata on a WebP file
\* whose RIFF size field is its length less 8, the little-endian u32 at offset
\* 4 is the new length of the file less 8.  This holds of every such call that
\* returns success, as the claim states, and of the others as well.
C3_SizeField ==
    (/\ fmt = "webp" /\ Len(hist) >= 1
     /\ Last.op \in {"write", "clear"}
     /\ SizeFieldFits(Last.before))
    => SizeFieldFits(Last.after)

\* C3's case: a successful write made the file longer and a successful clear
\* after it made the file shorter.
C3_GrewThenShrank ==
    /\ fmt = "webp" /\ Len(hist) = 2
    /\ hist[1].op = "write" /\ IsOk(hist[1]) /\ SizeFieldFits(hist[1].before)
    /\ Len(hist[1].after) > Len(hist[1].before)
    /\ hist[2].op = "clear" /\ IsOk(hist[2])
    /\ Len(hist[2].after) < Len(hist[2].before)

\* C4 (as the specification states it): clear called twice in a row on a
\* valid file, WebP or PNG: the second call leaves the file byte-identical
\* to what the first left and returns success.
C4_ClearTwice ==
    (/\ Len(hist) >= 2
     /\ Prior.op = "clear" /\ Last.op = "clear"
     /\ IF fmt = "webp" THEN ValidWebp(Prior.before) ELSE ValidPng(Prior.before))
    => (Last.after = Last.before /\ IsOk(Last))

\* C4's case: a first clear that removed a chunk, and a second clear after it.
C4_ClearedTwice ==
    /\ Len(hist) = 2
    /\ hist[1].op = "clear" /\ IsOk(hist[1])
    /\ Len(hist[1].after) < Len(hist[1].before)
    /\ hist[2].op = "clear" /\ IsOk(hist[2])

\* The chunks after the first one.
Rest(chunks) == SubSeq(chunks, 2, Len(chunks))

\* The bytes of a VP8X chunk without its first flag byte.
BesideFlags(c) == SubSeq(c.bytes, 1, 8) \o SubSeq(c.bytes, 10, Len(c.bytes))

\* C5 (as the specification states it): after a successful clear_metadata on
\* an Extended-Format WebP file with the EXIF flag set and one or more EXIF
\* chunks at any positions, the chunk stream holds no EXIF chunk and every
\* other chunk is still there, in the original order, header and payload
\* byte-identical (the VP8X chunk but for its flag byte).
C5_ClearRemovesExifOnly ==
    (/\ fmt = "webp" /\ Len(hist) >= 1
     /\ Last.op = "clear" /\ IsOk(Last)
     /\ ExtendedFormat(Last.before) /\ ExifFlagSet(Last.before)
     /\ \E k \in 1..Len(WebpChunks(Last.before)) : IsExif(WebpChunks(Last.before)[k]))
    => (/\ RiffLayout(Last.after, 12, <<>>).ok
        /\ WebpChunks(Last.after) # <<>>
        /\ \A k \in 1..Len(WebpChunks(Last.after)) : NotExif(WebpChunks(Last.after)[k])
        /\ BesideFlags(WebpChunks(Last.after)[1]) = BesideFlags(WebpChunks(Last.before)[1])
        /\ Rest(WebpChunks(Last.after)) = SelectSeq(Rest(WebpChunks(Last.before)), NotExif))

\* C5's case: a successful clear of a file with two EXIF chunks and a chunk
\* of another name behind them.
C5_TwoExifThenAnother ==
    /\ fmt = "webp" /\ Len(hist) = 1
    /\ hist[1].op = "clear" /\ IsOk(hist[1])
    /\ ExtendedFormat(hist[1].before) /\ ExifFlagSet(hist[1].before)
    /\ Len(WebpChunks(hist[1].before)) = 4
    /\ IsExif(WebpChunks(hist[1].before)[2])
    /\ IsExif(WebpChunks(hist[1].before)[3])
    /\ NotExif(WebpChunks(hist[1].before)[4])

\* C6 (as the specification states it): clear_metadata on a well-formed
\* Simple-Format WebP file, its one chunk 'VP8 ' or 'VP8L', returns success and
\* leaves the file byte-identical.
C6_ClearSimpleFormat ==
    (/\ fmt = "webp" /\ Len(hist) >= 1
     /\ Last.op = "clear" /\ SimpleFormat(Last.before))
    => (IsOk(Last) /\ Last.after = Last.before)

\* C6's case: clear_metadata was called on a lossy Simple-Format file.
C6_ClearedLossyFile ==
    /\ fmt = "webp" /\ Len(hist) = 1
    /\ hist[1].op = "clear"
    /\ SimpleFormat(hist[1].before)
    /\ WebpChunks(hist[1].before)[1].name = VP8_SPACE_NAME

\* There is nothing for read_metadata to return: the path is missing, a
\* signature or the size field is wrong, the chunk walk fails, the first
\* chunk is not VP8X, or the EXIF flag is unset.
NothingToRead(data) ==
    \/ ~exists
    \/ ReadBuf(data, 0, 4) # RIFF_SIGNATURE
    \/ ~SizeFieldFits(data)
    \/ ReadBuf(data, 8, 4) # WEBP_SIGNATURE
    \/ \E oc \in OverflowChecks : parse_webp(exists, data, oc).kind = "err"
    \/ ReadBuf(data, 12, 4) # VP8X_HEADER
    \/ (ReadBuf(data, 20, 1)[1] \div 8) % 2 = 0

\* C7 (as the specification states it): when there is nothing to read,
\* read_metadata returns Err to its caller: it does not panic and returns no
\* data.
C7_ReadReturnsErr ==
    (/\ fmt = "webp" /\ Len(hist) >= 1
     /\ Last.op = "read" /\ NothingToRead(Last.before))
    => Last.ret.kind = "err"

\* C7's case: read_metadata was called on a valid Extended-Format file whose
\* EXIF flag is unset.
C7_ReadUnflaggedFile ==
    /\ fmt = "webp" /\ Len(hist) = 1
    /\ hist[1].op = "read"
    /\ ExtendedFormat(hist[1].before) /\ ~ExifFlagSet(hist[1].before)

CrcDamaged(data) ==
    /\ PngFramed(data)
    /\ \E k \in 1..Len(PngChunks(data)) : ~PngChunks(data)[k].crc_ok

\* C9 (as the specification states it): on a PNG file that is well-formed up
\* to its IEND but for the stored CRC of one of its chunks, parse_png returns
\* no chunk list and fails with a checksum error.
C9_CrcRejection ==
    (/\ fmt = "png" /\ Len(hist) >= 1
     /\ Last.op = "parse" /\ CrcDamaged(Last.before))
    => (/\ Last.ret.kind = "err"
        /\ Last.ret.chunks = <<>>
        /\ Last.ret.err = "Checksum check failed while reading PNG!")

\* C9's case: parse_png was called on a file with one flipped bit and failed.
C9_ParsedDamagedFile ==
    /\ fmt = "png" /\ Len(hist) = 1
    /\ hist[1].op = "parse" /\ CrcDamaged(hist[1].before)
    /\ hist[1].ret.kind = "err"

\* seq with x put before its element at index k.
InsertAt(seq, k, x) == SubSeq(seq, 1, k - 1) \o <<x>> \o SubSeq(seq, k, Len(seq))

\* The file after is the file before with one zTXt chunk put in behind IHDR:
\* its length field 23 + |compress(m)|, its payload the 23-byte marker and
\* compress(m), its CRC the computed one; and parse_png returns the
\* descriptors of before with the one of the new chunk at index 1.
ZtxtInserted(before, after, m) ==
    LET at  == 8 + PngChunks(before)[1].size + 12
        n   == 23 + Len(deflate_bytes_zlib(m))
        new == SubSeq(after, at + 1, at + 12 + n)
    IN  /\ Len(after) = Len(before) + 12 + n
        /\ SubSeq(after, 1, at) = SubSeq(before, 1, at)
        /\ SubSeq(after, at + 12 + n + 1, Len(after)) = SubSeq(before, at + 1, Len(before))
        /\ SubSeq(new, 1, 4) = BE32(n)
        /\ SubSeq(new, 5, 8) = zTXt_NAME
        /\ SubSeq(new, 9, 31) = RAW_PROFILE_TYPE_EXIF
        /\ SubSeq(new, 32, 8 + n) = deflate_bytes_zlib(m)
        /\ SubSeq(new, 9 + n, 12 + n) = checksum(SubSeq(new, 5, 8 + n))
        /\ parse_png(exists, after).kind = "ok"
        /\ parse_png(exists, after).chunks
               = InsertAt(parse_png(exists, before).chunks, 2,
                          [name |-> zTXt_NAME, len |-> n])

\* C10: write_metadata_to_png on a valid PNG file that starts with IHDR and
\* holds no zTXt chunk, with any blob M, succeeds and puts exactly one
\* well-formed zTXt chunk in at offset 8 + IHDR_length + 12.
C10_WriteInsertsZtxt ==
    (/\ fmt = "png" /\ Len(hist) >= 1
     /\ Last.op = "write"
     /\ ValidPng(Last.before)
     /\ \A k \in 1..Len(PngChunks(Last.before)) :
            PngChunks(Last.before)[k].name # zTXt_NAME)
    => (IsOk(Last) /\ ZtxtInserted(Last.before, Last.after, Last.arg))

\* C10's case: a blob of two bytes was written to a valid PNG file of IHDR,
\* IDAT and IEND.
C10_WroteToPlainFile ==
    /\ fmt = "png" /\ Len(hist) = 1
    /\ hist[1].op = "write" /\ IsOk(hist[1])
    /\ Len(hist[1].arg) = 2
    /\ ValidPng(hist[1].before)
    /\ Len(PngChunks(hist[1].before)) = 3
    /\ PngChunks(hist[1].before)[2].name = IDAT_NAME

IsZtxt(c) == c.name = zTXt_NAME

\* The payload of a zTXt chunk that carries the blob m.
ZtxtPayload(m) == RAW_PROFILE_TYPE_EXIF \o deflate_bytes_zlib(m)

\* C11 (as the specification states it): after a successful
\* write_metadata_to_png on a valid PNG file, one that already holds zTXt
\* chunks included, parse_png yields exactly one zTXt chunk and that chunk
\* carries the blob just written: the zTXt chunks that were there before the
\* write are gone.
C11_NoStaleZtxt ==
    (/\ fmt = "png" /\ Len(hist) >= 1
     /\ Last.op = "write" /\ IsOk(Last)
     /\ ValidPng(Last.before))
    => (/\ parse_png(exists, Last.after).kind = "ok"
        /\ Len(SelectSeq(parse_png(exists, Last.after).chunks, IsZtxt)) = 1
        /\ Len(SelectSeq(PngChunks(Last.after), IsZtxt)) = 1
        /\ SelectSeq(PngChunks(Last.after), IsZtxt)[1].bytes
               = PngChunkBytes(zTXt_NAME, ZtxtPayload(Last.arg)))

\* C11's case: a successful write to a valid PNG file that held a zTXt chunk
\* written by a successful write before it.
C11_WroteTwice ==
    /\ fmt = "png" /\ Len(hist) = 2
    /\ hist[1].op = "write" /\ IsOk(hist[1]) /\ ValidPng(hist[1].before)
    /\ hist[2].op = "write" /\ IsOk(hist[2]) /\ ValidPng(hist[2].before)
    /\ \E k \in 1..Len(PngChunks(hist[2].before)) : IsZtxt(PngChunks(hist[2].before)[k])

\* The file holds at least one chunk named EXIF.
HasExif(data) == \E k \in 1..Len(WebpChunks(data)) : IsExif(WebpChunks(data)[k])

\* Bit 0x08 of the first VP8X flag byte is set if and only if the file holds
\* an EXIF chunk.
FlagTracksExif(data) == Len(data) >= 21 /\ (ExifFlagSet(data) <=> HasExif(data))

\* C12 (as the specification states it): from an Extended-Format WebP file
\* whose EXIF flag is set if and only if it holds an EXIF chunk, after any
\* sequence of successful write_metadata and clear_metadata calls the flag is
\* set if and only if the file holds at least one EXIF chunk: set after a
\* write, cleared after a clear.
C12_FlagTracksExif ==
    (/\ fmt = "webp" /\ Len(hist) >= 1
     /\ ExtendedFormat(FirstFile) /\ FlagTracksExif(FirstFile)
     /\ \A i \in Calls : hist[i].op \in {"write", "clear"} /\ IsOk(hist[i]))
    => (/\ FlagTracksExif(disk)
        /\ ExifFlagSet(disk) <=> (Last.op = "write"))

\* C12's case: on such a file with an EXIF chunk a successful clear cleared
\* the flag and a successful write after it set the flag again.
C12_ClearedThenSet ==
    /\ fmt = "webp" /\ Len(hist) = 2
    /\ ExtendedFormat(FirstFile) /\ FlagTracksExif(FirstFile) /\ HasExif(FirstFile)
    /\ hist[1].op = "clear" /\ IsOk(hist[1]) /\ ~ExifFlagSet(hist[1].after)
    /\ hist[2].op = "write" /\ IsOk(hist[2]) /\ ExifFlagSet(hist[2].after)

\* The name of the chunk is one of those write_metadata looks for in front of
\* the EXIF chunk, compared as it compares them.
Listed(c) == \E pre \in pre_exif_chunks : to_lowercase(pre) = to_lowercase(c.name)

\* The index of the first chunk that is not listed, or the one behind the
\* last chunk if all are.
FirstUnlisted(chunks) ==
    IF \E k \in 1..Len(chunks) : ~Listed(chunks[k])
    THEN CHOOSE k \in 1..Len(chunks) :
             ~Listed(chunks[k]) /\ \A j \in 1..(k - 1) : Listed(chunks[j])
    ELSE Len(chunks) + 1

\* The bytes of each chunk.
Bytes(chunks) == [k \in 1..Len(chunks) |-> chunks[k].bytes]

\* C13 (as the specification states it): a successful write_metadata on an
\* Extended-Format file puts the new EXIF chunk right behind the last leading
\* chunk whose name is listed, in front of the first chunk that is not listed,
\* which follows it with everything behind it; or at the end of the file if
\* every chunk is listed.  The chunks meant are those the clear step leaves:
\* the chunks of the file other than EXIF.
C13_InsertionPoint ==
    (/\ fmt = "webp" /\ Len(hist) >= 1
     /\ Last.op = "write" /\ IsOk(Last)
     /\ ExtendedFormat(Last.before))
    => (/\ RiffLayout(Last.after, 12, <<>>).ok
        /\ WebpChunks(Last.after) # <<>>
        /\ Bytes(Rest(WebpChunks(Last.after)))
               = InsertAt(Bytes(SelectSeq(Rest(WebpChunks(Last.before)), NotExif)),
                          FirstUnlisted(SelectSeq(Rest(WebpChunks(Last.before)), NotExif)),
                          encode_metadata_webp(Last.arg)))

\* C13's case: a successful write to an Extended-Format file without an EXIF
\* chunk, in which a listed chunk (ICCP) comes first, a chunk that is not
\* listed (XMP) after it and another chunk behind that.
C13_WroteAmongChunks ==
    /\ fmt = "webp" /\ Len(hist) = 1
    /\ hist[1].op = "write" /\ IsOk(hist[1])
    /\ ExtendedFormat(hist[1].before) /\ ~HasExif(hist[1].before)
    /\ Len(WebpChunks(hist[1].before)) = 4
    /\ WebpChunks(hist[1].before)[2].name = ICCP_NAME
    /\ WebpChunks(hist[1].before)[3].name = XMP_NAME

\* The number of bytes of the file behind its last complete chunk, the chunks
\* taken from offset pos on.
RECURSIVE Unconsumed(_, _)
Unconsumed(data, pos) ==
    IF pos + 8 > Len(data) THEN Len(data) - pos
    ELSE IF data[pos + 8] >= 128 THEN Len(data) - pos
    ELSE LET size == FromLE32(SubSeq(data, pos + 5, pos + 8))
         IN  IF pos + 8 + size + (size % 2) > Len(data) THEN Len(data) - pos
             ELSE Unconsumed(data, pos + 8 + size + (size % 2))

\* C14 (as the specification states it): whenever parse_webp returns
\* Ok(chunks), 12 plus the sum of 8 + recorded length over the chunks is the
\* byte length of the file and every recorded length is even; on a file that
\* leaves 1 to 7 bytes behind its last complete chunk parse_webp does not
\* return Ok.
C14_ExactCover ==
    (/\ fmt = "webp" /\ Len(hist) >= 1
     /\ Last.op = "parse")
    => (/\ IsOk(Last)
           => (/\ 12 + SumLen(Last.ret.chunks, 1, 0) = Len(Last.before)
               /\ \A k \in 1..Len(Last.ret.chunks) : Last.ret.chunks[k].len % 2 = 0)
        /\ (Len(Last.before) >= 12 /\ Unconsumed(Last.before, 12) \in 1..7)
           => ~IsOk(Last))

\* C14's case: parse_webp was called on a file with both signatures and a
\* fitting size field that leaves two bytes behind its one chunk.
C14_ParsedTrailingBytes ==
    /\ fmt = "webp" /\ Len(hist) = 1
    /\ hist[1].op = "parse"
    /\ check_signature_webp(exists, hist[1].before, overflow_checks).kind = "ok"
    /\ Len(WebpChunks(hist[1].before)) = 1
    /\ Unconsumed(hist[1].before, 12) = 2

\* The offset the claim gives the chunk examined at iteration i: 8 plus
\* length + 12 of each chunk before it that is retained (is not zTXt).
RECURSIVE RetainedBefore(_, _)
RetainedBefore(chunks, i) ==
    IF i <= 1 THEN 8
    ELSE RetainedBefore(chunks, i - 1)
         + (IF chunks[i - 1].name = zTXt_NAME THEN 0 ELSE chunks[i - 1].len + 12)

\* The iterations of the loop that the clear of the file runs through.
ClearIterations(data) ==
    clear_png_iterations(parse_png(exists, data).chunks, 1, 8, 0)

\* C15 (as the specification states it): in clear_metadata_from_png, at the
\* start of every iteration of the loop seek_counter is the position of the
\* file cursor, the first byte of the chunk examined: 8 plus length + 12 of
\* the retained chunks before it.  The remainder buffered for a zTXt chunk is
\* thus written from the first byte of that chunk on.
C15_SeekCounterIsCursor ==
    (/\ fmt = "png" /\ Len(hist) >= 1
     /\ Last.op = "clear" /\ IsOk(Last))
    => \A i \in 1..Len(ClearIterations(Last.before)) :
           /\ ClearIterations(Last.before)[i].seek_counter
                  = ClearIterations(Last.before)[i].cursor
           /\ ClearIterations(Last.before)[i].seek_counter
                  = RetainedBefore(parse_png(exists, Last.before).chunks, i)

\* C15's case: clear_metadata_from_png ran its loop over a valid PNG file with
\* a zTXt chunk between IHDR and IDAT.
C15_LoopMetZtxt ==
    /\ fmt = "png" /\ Len(hist) = 1
    /\ hist[1].op = "clear" /\ IsOk(hist[1])
    /\ ValidPng(hist[1].before)
    /\ Len(ClearIterations(hist[1].before)) = 4
    /\ PngChunks(hist[1].before)[2].name = zTXt_NAME
    /\ PngChunks(hist[1].before)[3].name = IDAT_NAME

\* C16 (as the specification states it): write_metadata on a well-formed
\* Simple-Format WebP file, its one chunk 'VP8 ' or 'VP8L', does not return
\* success, and it leaves the file byte-identical: no EXIF chunk inserted, the
\* size field at offset 4 unchanged.
C16_WriteSimpleFormat ==
    (/\ fmt = "webp" /\ Len(hist) >= 1
     /\ Last.op = "write" /\ SimpleFormat(Last.before))
    => (~IsOk(Last) /\ Last.after = Last.before)

\* C16's case: write_metadata was called on a lossless Simple-Format file and
\* did not return success.
C16_WroteToLosslessFile ==
    /\ fmt = "webp" /\ Len(hist) = 1
    /\ hist[1].op = "write" /\ ~IsOk(hist[1])
    /\ SimpleFormat(hist[1].before)
    /\ WebpChunks(hist[1].before)[1].name = VP8L_NAME

====
